---------------------------- MODULE Spec2Model ----------------------------
(***************************************************************************)
(* State-machine model of src/main.js: the chunked voxel world (chunk map, *)
(* terrain generation, face-culling mesher, block edits, streaming),       *)
(* the player physics step and the save/load system.                       *)
(*                                                                         *)
(* Numbers.  JavaScript numbers are doubles.  Positions and velocities are *)
(* kept as integers counting 1/UNIT (UNIT = 10000): with dt = 0.016,       *)
(* GRAVITY = 25, JUMP_FORCE = 8 and SPEED = 6 every value the integrator   *)
(* produces from the start position is a multiple of 0.0001.  Arguments of *)
(* setBlock are pairs <<v, e>> standing for v/UNIT + e * 1e-17, so that a  *)
(* coordinate a hair below zero can be given; TinyNeg and NumSub state how *)
(* IEEE-754 rounds such a value.                                           *)
(*                                                                         *)
(* CHUNK_SIZE, the horizontal extent of a chunk, is 16 in the source and   *)
(* is scaled down here; every definition is written in terms of it.        *)
(***************************************************************************)
EXTENDS Integers, Sequences, FiniteSets, TLC

\* ------------------------------------------------------------------------
\* 1. CONFIGURATION
\* ------------------------------------------------------------------------
CHUNK_SIZE == 2
CHUNK_HEIGHT == 24
RENDER_DISTANCE == 2
UNIT == 10000
\* GRAVITY = 25.0, JUMP_FORCE = 8.0, SPEED = 6.0, each times UNIT
GRAVITY == 250000
JUMP_FORCE == 80000
SPEED == 60000
\* dt = 0.016 is DT_NUM / DT_DEN
DT_NUM == 16
DT_DEN == 1000

AIR == 0
GRASS == 1
DIRT == 2
STONE == 3
SAND == 4
WOOD == 5
BRICK == 6

\* the value JavaScript reads past the end of a typed array, or for a
\* missing property
undefined == 0 - 1

NCELLS == CHUNK_SIZE * CHUNK_HEIGHT * CHUNK_SIZE

\* TEXTURE_MAP[type]: def.all || def[faceName] || [0,0]; the empty tuple
\* stands for a type that has no entry (def is undefined, addFace throws)
TEXTURE_MAP(type, faceName) ==
    CASE type = GRASS -> (CASE faceName = "top" -> <<0, 0>>
                            [] faceName = "side" -> <<0, 1>>
                            [] OTHER -> <<0, 2>>)
      [] type = DIRT  -> <<0, 2>>
      [] type = STONE -> <<1, 0>>
      [] type = SAND  -> <<1, 1>>
      [] type = WOOD  -> (CASE faceName = "side" -> <<1, 2>>
                            [] OTHER -> <<1, 3>>)
      [] type = BRICK -> <<2, 0>>
      [] OTHER -> <<>>

\* ------------------------------------------------------------------------
\* 2. JAVASCRIPT VALUES
\* ------------------------------------------------------------------------
\* Math.floor(a / b) for integers a and b > 0
FloorDiv(a, b) == a \div b

\* String(n) for an integer n, as a sequence of characters
DigitChars == <<"0", "1", "2", "3", "4", "5", "6", "7", "8", "9">>

RECURSIVE NatToStr(_)
NatToStr(n) ==
    IF n < 10 THEN <<DigitChars[n + 1]>>
    ELSE NatToStr(n \div 10) \o <<DigitChars[(n % 10) + 1]>>

NumToStr(n) == IF n < 0 THEN <<"-">> \o NatToStr(0 - n) ELSE NatToStr(n)

\* Number(s) for the character sequence s of an integer literal
DigitVal(c) == CHOOSE d \in 0..9 : DigitChars[d + 1] = c

RECURSIVE StrToNat(_)
StrToNat(s) ==
    IF Len(s) = 0 THEN 0
    ELSE StrToNat(SubSeq(s, 1, Len(s) - 1)) * 10 + DigitVal(s[Len(s)])

StrToNum(s) ==
    IF Len(s) > 0 /\ s[1] = "-" THEN 0 - StrToNat(Tail(s)) ELSE StrToNat(s)

\* key.split(','): the parts before and after the first comma
CommaAt(s) == CHOOSE i \in 1..Len(s) : s[i] = "," /\ \A j \in 1..(i - 1) : s[j] # ","

SplitKey(key) ==
    <<StrToNum(SubSeq(key, 1, CommaAt(key) - 1)),
      StrToNum(SubSeq(key, CommaAt(key) + 1, Len(key)))>>

getChunkKey(cx, cz) == NumToStr(cx) \o <<",">> \o NumToStr(cz)

\* new Uint8Array(array): each element modulo 256
Uint8Array(arr) == [i \in 1..Len(arr) |-> arr[i] % 256]

\* data[index] of a typed array (0-based): undefined past its end
ReadCell(data, index) ==
    IF index >= 0 /\ index < Len(data) THEN data[index + 1] ELSE undefined

\* data[index] = id on a typed array: a write past its end is dropped
WriteCell(data, index, id) ==
    IF index >= 0 /\ index < Len(data)
    THEN [data EXCEPT ![index + 1] = id % 256]
    ELSE data

\* ------------------------------------------------------------------------
\* 3. THE CHUNK MAP
\* ------------------------------------------------------------------------
\* `chunks` is a JavaScript object: its properties in insertion order.
\* Each entry is [key, data, mesh]; mesh is <<>> (null) or <<m>> with
\* m = [geometry |-> the merged quads, disposed |-> removed from the scene
\* and its geometry disposed].
NoMesh == <<>>

ChunkIndex(chs, key) ==
    IF \E i \in 1..Len(chs) : chs[i].key = key
    THEN CHOOSE i \in 1..Len(chs) : chs[i].key = key
    ELSE 0

HasChunk(chs, key) == ChunkIndex(chs, key) # 0

ChunkAt(chs, key) == chs[ChunkIndex(chs, key)]

CellIndex(x, y, z) == (y * CHUNK_SIZE * CHUNK_SIZE) + (z * CHUNK_SIZE) + x

\* ------------------------------------------------------------------------
\* 4. WORLD GENERATION & MESHING
\* ------------------------------------------------------------------------
\* Math.sin(i * 0.1) * 2 and Math.cos(i * 0.1) * 2 in millionths, i = 0..40
SinTable ==
    <<0, 199667, 397339, 591040, 778837, 958851, 1129285, 1288435, 1434712,
      1566654, 1682942, 1782415, 1864078, 1927116, 1970899, 1994990, 1999147,
      1983330, 1947695, 1892600, 1818595, 1726419, 1616993, 1491410, 1350926,
      1196944, 1031003, 854760, 669976, 478499, 282240, 83161, -116748,
      -315491, -511082, -701566, -885041, -1059672, -1223716, -1375532,
      -1513605>>

CosTable ==
    <<2000000, 1990008, 1960133, 1910673, 1842122, 1755165, 1650671, 1529684,
      1393413, 1243220, 1080605, 907192, 724716, 534998, 339934, 141474,
      -58399, -257689, -454404, -646579, -832294, -1009692, -1177002,
      -1332552, -1474787, -1602287, -1713778, -1808144, -1884445, -1941916,
      -1979985, -1998270, -1996590, -1974960, -1933596, -1872913, -1793517,
      -1696200, -1581935, -1451865, -1307287>>

Sin2(i) == IF i < 0 THEN 0 - SinTable[(0 - i) + 1] ELSE SinTable[i + 1]

Cos2(i) == IF i < 0 THEN CosTable[(0 - i) + 1] ELSE CosTable[i + 1]

\* height = Math.floor(5 + Math.sin(worldX * 0.1) * 2 + Math.cos(worldZ * 0.1) * 2)
TerrainHeight(worldX, worldZ) ==
    FloorDiv(5 * 1000000 + Sin2(worldX) + Cos2(worldZ), 1000000)

TerrainBlock(y, height) ==
    IF y < height THEN (IF y < height - 3 THEN STONE ELSE DIRT)
    ELSE IF y = height THEN GRASS
    ELSE AIR

generateChunkData(cx, cz) ==
    [i \in 1..NCELLS |->
        LET x == (i - 1) % CHUNK_SIZE
            z == ((i - 1) \div CHUNK_SIZE) % CHUNK_SIZE
            y == (i - 1) \div (CHUNK_SIZE * CHUNK_SIZE)
        IN  TerrainBlock(y, TerrainHeight(cx * CHUNK_SIZE + x, cz * CHUNK_SIZE + z))]

\* getBlock once chunks[key] has been looked up: i is the place of the chunk
\* in the map, 0 when it is not loaded
BlockOf(chs, i, x, y, z) ==
    IF i = 0 THEN AIR
    ELSE IF x < 0 \/ x >= CHUNK_SIZE \/ z < 0 \/ z >= CHUNK_SIZE
            \/ y < 0 \/ y >= CHUNK_HEIGHT
         THEN AIR
         ELSE ReadCell(chs[i].data, CellIndex(x, y, z))

getBlock(chs, cx, cz, x, y, z) ==
    BlockOf(chs, ChunkIndex(chs, getChunkKey(cx, cz)), x, y, z)

\* The six neighbour tests of buildChunkMesh in source order:
\* <<ox, oy, oz, faceName>>
FaceDirs ==
    <<<<1, 0, 0, "side">>, <<-1, 0, 0, "side">>, <<0, 1, 0, "top">>,
      <<0, -1, 0, "bottom">>, <<0, 0, 1, "side">>, <<0, 0, -1, "side">>>>

\* a mesher that leaves out the test below the cell (direction 4)
ExposedDirsNoBottom(chs, own, x, y, z) ==
    SelectSeq(<<1, 2, 3, 5, 6>>,
        LAMBDA d : BlockOf(chs, own, x + FaceDirs[d][1], y + FaceDirs[d][2],
                           z + FaceDirs[d][3]) = AIR)

\* the directions in which cell (x, y, z) gets a quad
ExposedDirs(chs, own, x, y, z) ==
    SelectSeq(<<1, 2, 3, 4, 5, 6>>,
        LAMBDA d : BlockOf(chs, own, x + FaceDirs[d][1], y + FaceDirs[d][2],
                           z + FaceDirs[d][3]) = AIR)

\* addFace: the quad pushed for cell (x, y, z) of the given type in
\* direction d: <<worldX, y, worldZ, d, uvCoords>>
addFace(cx, cz, x, y, z, type, d) ==
    <<cx * CHUNK_SIZE + x, y, cz * CHUNK_SIZE + z, d,
      TEXTURE_MAP(type, FaceDirs[d][4])>>

\* the quads of the cell with index i, in source order
CellFaces(chs, own, cx, cz, data, i) ==
    LET x == i % CHUNK_SIZE
        z == (i \div CHUNK_SIZE) % CHUNK_SIZE
        y == i \div (CHUNK_SIZE * CHUNK_SIZE)
        type == ReadCell(data, i)
        dirs == ExposedDirs(chs, own, x, y, z)
    IN  IF type = AIR THEN <<>>
        ELSE [k \in 1..Len(dirs) |-> addFace(cx, cz, x, y, z, type, dirs[k])]

\* the list `geometries` after the three nested loops: the quads of the
\* cells with index lo..hi-1, in source order
RECURSIVE Geometries(_, _, _, _, _, _, _)
Geometries(chs, own, cx, cz, data, lo, hi) ==
    IF hi <= lo THEN <<>>
    ELSE IF hi = lo + 1 THEN CellFaces(chs, own, cx, cz, data, lo)
    ELSE Geometries(chs, own, cx, cz, data, lo, (lo + hi) \div 2)
         \o Geometries(chs, own, cx, cz, data, (lo + hi) \div 2, hi)

\* addFace throws a TypeError (def.all of undefined) for a type that has no
\* TEXTURE_MAP entry
Throws(geometries) == \E k \in 1..Len(geometries) : geometries[k][5] = <<>>

\* buildChunkMesh(cx, cz, data) on chunk map chs: the chunk map after it and
\* whether it threw.  With no quad it returns early and leaves the mesh
\* field as it was.
buildChunkMesh(chs, cx, cz, data) ==
    LET i == ChunkIndex(chs, getChunkKey(cx, cz))
        geometries == Geometries(chs, i, cx, cz, data, 0, NCELLS)
    IN  IF Throws(geometries) THEN [chunks |-> chs, threw |-> TRUE]
        ELSE IF Len(geometries) = 0 THEN [chunks |-> chs, threw |-> FALSE]
        ELSE IF i = 0 THEN [chunks |-> chs, threw |-> TRUE]
        ELSE [chunks |-> [chs EXCEPT ![i].mesh =
                            <<[geometry |-> geometries, disposed |-> FALSE]>>],
              threw |-> FALSE]

\* an iteration without the test of chunks[key]: the chunk is generated anew
\* whether or not it is loaded
LoadChunkAlways(chs, cx, cz) ==
    LET data == generateChunkData(cx, cz)
        i == ChunkIndex(chs, getChunkKey(cx, cz))
        fresh == [key |-> getChunkKey(cx, cz), data |-> data, mesh |-> NoMesh]
    IN  buildChunkMesh(IF i = 0 THEN Append(chs, fresh)
                       ELSE [chs EXCEPT ![i] = fresh],
                       cx, cz, data)

\* one iteration of the loops of updateChunks, for offsets (x, z)
LoadChunk(chs, cx, cz) ==
    IF HasChunk(chs, getChunkKey(cx, cz)) THEN [chunks |-> chs, threw |-> FALSE]
    ELSE LET data == generateChunkData(cx, cz)
         IN  buildChunkMesh(
                 Append(chs, [key |-> getChunkKey(cx, cz), data |-> data,
                              mesh |-> NoMesh]),
                 cx, cz, data)

\* the loops of updateChunks from iteration k on (x outer, z inner); r is
\* the map after iteration k, computed once
RECURSIVE UpdateFrom(_, _, _, _)
UpdateFrom(chs, playerChunkX, playerChunkZ, k) ==
    LET w == 2 * RENDER_DISTANCE + 1
    IN  IF k >= w * w THEN [chunks |-> chs, threw |-> FALSE]
        ELSE CHOOSE out \in
                 {IF r.threw THEN r
                  ELSE UpdateFrom(r.chunks, playerChunkX, playerChunkZ, k + 1) :
                     r \in {LoadChunk(chs,
                                      playerChunkX + (k \div w) - RENDER_DISTANCE,
                                      playerChunkZ + (k % w) - RENDER_DISTANCE)}} :
                 TRUE

\* streaming that runs at start-up only and not in the frame loop
updateChunksOnce(chs, cam) ==
    IF chs # <<>> THEN [chunks |-> chs, threw |-> FALSE]
    ELSE UpdateFrom(chs, FloorDiv(cam.x, CHUNK_SIZE * UNIT),
                    FloorDiv(cam.z, CHUNK_SIZE * UNIT), 0)

updateChunks(chs, cam) ==
    UpdateFrom(chs, FloorDiv(cam.x, CHUNK_SIZE * UNIT),
               FloorDiv(cam.z, CHUNK_SIZE * UNIT), 0)


\* ------------------------------------------------------------------------
\* 5. BLOCK EDITS
\* ------------------------------------------------------------------------
\* A setBlock argument <<v, e>> is the double v/UNIT + e * 1e-17, with e # 0
\* only for v = 0.  Math.floor(w / n) for a positive integer n:
NumFloorDiv(w, n) ==
    IF w[2] < 0 /\ w[1] % (n * UNIT) = 0 THEN (w[1] \div (n * UNIT)) - 1
    ELSE w[1] \div (n * UNIT)

\* w - m for an integer m.  The difference is rounded to the nearest double:
\* next to a value of magnitude 1 or more, 1e-17 is less than half an ulp
\* and is lost (16 - 1e-17 evaluates to 16).
NumSub(w, m) ==
    IF w[1] - m * UNIT # 0 THEN <<w[1] - m * UNIT, 0>> ELSE <<0, w[2]>>

\* Math.floor(w)
NumFloor(w) ==
    IF w[2] < 0 /\ w[1] % UNIT = 0 THEN (w[1] \div UNIT) - 1 ELSE w[1] \div UNIT

\* scene.remove(mesh); mesh.geometry.dispose() when the mesh field is set
DisposeMesh(mesh) ==
    IF mesh = NoMesh THEN mesh ELSE <<[mesh[1] EXCEPT !.disposed = TRUE]>>

\* the owning chunk and the local cell setBlock computes for (wx, wy, wz)
SetBlockTarget(wx, wy, wz) ==
    LET cx == NumFloorDiv(wx, CHUNK_SIZE)
        cz == NumFloorDiv(wz, CHUNK_SIZE)
    IN  [cx |-> cx, cz |-> cz,
         lx |-> NumFloor(NumSub(wx, cx * CHUNK_SIZE)),
         lz |-> NumFloor(NumSub(wz, cz * CHUNK_SIZE)),
         ly |-> NumFloor(wy)]

\* setBlock without the test of chunks[key]: reading .data of a chunk that
\* is not loaded raises a TypeError
setBlockUnguarded(chs, wx, wy, wz, id) ==
    LET t == SetBlockTarget(wx, wy, wz)
        i == ChunkIndex(chs, getChunkKey(t.cx, t.cz))
        written == [chs EXCEPT
                       ![i].data = WriteCell(@, CellIndex(t.lx, t.ly, t.lz), id),
                       ![i].mesh = DisposeMesh(@)]
    IN  IF t.ly >= 0 /\ t.ly < CHUNK_HEIGHT
        THEN IF i = 0 THEN [chunks |-> chs, threw |-> TRUE]
             ELSE buildChunkMesh(written, t.cx, t.cz, written[i].data)
        ELSE [chunks |-> chs, threw |-> FALSE]

setBlock(chs, wx, wy, wz, id) ==
    LET t == SetBlockTarget(wx, wy, wz)
        key == getChunkKey(t.cx, t.cz)
        i == ChunkIndex(chs, key)
        index == CellIndex(t.lx, t.ly, t.lz)
        written == [chs EXCEPT ![i].data = WriteCell(@, index, id),
                               ![i].mesh = DisposeMesh(@)]
    IN  IF i # 0 /\ t.ly >= 0 /\ t.ly < CHUNK_HEIGHT
        THEN buildChunkMesh(written, t.cx, t.cz, written[i].data)
        ELSE [chunks |-> chs, threw |-> FALSE]

\* ------------------------------------------------------------------------
\* 6. PHYSICS
\* ------------------------------------------------------------------------
\* updatePhysics(dt) with dt = DT_NUM / DT_DEN.  The camera keeps the
\* orientation it is created with, so forward = (0, 0, -1) and
\* right = (1, 0, 0).  killed records that the kill plane fired.
\* First a variant whose kill plane moves the camera but keeps the velocity,
\* then one whose ground snap leaves out the + 1 (the camera is put at
\* ly + 1.6, the feet inside the block), then the function itself.
updatePhysicsKeepsSpeed(chs, cam, pl, mv) ==
    LET vy == pl.vy - (GRAVITY * DT_NUM) \div DT_DEN
        px == cam.x + (mv.x * SPEED * DT_NUM) \div DT_DEN
        pz == cam.z + (mv.y * SPEED * DT_NUM) \div DT_DEN
        py == cam.y + (vy * DT_NUM) \div DT_DEN
        chX == FloorDiv(px, CHUNK_SIZE * UNIT)
        chZ == FloorDiv(pz, CHUNK_SIZE * UNIT)
        lx == FloorDiv(px - chX * CHUNK_SIZE * UNIT, UNIT)
        lz == FloorDiv(pz - chZ * CHUNK_SIZE * UNIT, UNIT)
        ly == FloorDiv(py - (16 * UNIT) \div 10, UNIT)
        hit == getBlock(chs, chX, chZ, lx, ly, lz) # AIR
        y2 == IF hit THEN (ly + 1) * UNIT + (16 * UNIT) \div 10 ELSE py
        vy2 == IF hit THEN 0 ELSE vy
    IN  IF y2 < (0 - 10) * UNIT
        THEN [camera |-> [x |-> 0, y |-> 30 * UNIT, z |-> 0],
              player |-> [vy |-> vy2, onGround |-> hit], killed |-> TRUE]
        ELSE [camera |-> [x |-> px, y |-> y2, z |-> pz],
              player |-> [vy |-> vy2, onGround |-> hit], killed |-> FALSE]

updatePhysicsLowSnap(chs, cam, pl, mv) ==
    LET vy == pl.vy - (GRAVITY * DT_NUM) \div DT_DEN
        px == cam.x + (mv.x * SPEED * DT_NUM) \div DT_DEN
        pz == cam.z + (mv.y * SPEED * DT_NUM) \div DT_DEN
        py == cam.y + (vy * DT_NUM) \div DT_DEN
        chX == FloorDiv(px, CHUNK_SIZE * UNIT)
        chZ == FloorDiv(pz, CHUNK_SIZE * UNIT)
        lx == FloorDiv(px - chX * CHUNK_SIZE * UNIT, UNIT)
        lz == FloorDiv(pz - chZ * CHUNK_SIZE * UNIT, UNIT)
        ly == FloorDiv(py - (16 * UNIT) \div 10, UNIT)
        hit == getBlock(chs, chX, chZ, lx, ly, lz) # AIR
        y2 == IF hit THEN ly * UNIT + (16 * UNIT) \div 10 ELSE py
    IN  IF y2 < (0 - 10) * UNIT
        THEN [camera |-> [x |-> 0, y |-> 30 * UNIT, z |-> 0],
              player |-> [vy |-> 0, onGround |-> hit], killed |-> TRUE]
        ELSE [camera |-> [x |-> px, y |-> y2, z |-> pz],
              player |-> [vy |-> IF hit THEN 0 ELSE vy, onGround |-> hit],
              killed |-> FALSE]

updatePhysics(chs, cam, pl, mv) ==
    LET vy == pl.vy - (GRAVITY * DT_NUM) \div DT_DEN
        px == cam.x + (mv.x * SPEED * DT_NUM) \div DT_DEN
        pz == cam.z + (mv.y * SPEED * DT_NUM) \div DT_DEN
        py == cam.y + (vy * DT_NUM) \div DT_DEN
        chX == FloorDiv(px, CHUNK_SIZE * UNIT)
        chZ == FloorDiv(pz, CHUNK_SIZE * UNIT)
        lx == FloorDiv(px - chX * CHUNK_SIZE * UNIT, UNIT)
        lz == FloorDiv(pz - chZ * CHUNK_SIZE * UNIT, UNIT)
        ly == FloorDiv(py - (16 * UNIT) \div 10, UNIT)
        blockBelow == getBlock(chs, chX, chZ, lx, ly, lz)
        hit == blockBelow # AIR
        y2 == IF hit THEN (ly + 1) * UNIT + (16 * UNIT) \div 10 ELSE py
        vy2 == IF hit THEN 0 ELSE vy
    IN  IF y2 < (0 - 10) * UNIT
        THEN [camera |-> [x |-> 0, y |-> 30 * UNIT, z |-> 0],
              player |-> [vy |-> 0, onGround |-> hit], killed |-> TRUE]
        ELSE [camera |-> [x |-> px, y |-> y2, z |-> pz],
              player |-> [vy |-> vy2, onGround |-> hit], killed |-> FALSE]

\* ------------------------------------------------------------------------
\* 7. SAVE / LOAD
\* ------------------------------------------------------------------------
\* JSON.stringify(saveData): for each chunk in insertion order its key and
\* Array.from(data), every number written as its decimal numeral
saveData(chs) ==
    [i \in 1..Len(chs) |->
        [key |-> chs[i].key,
         arr |-> [j \in 1..Len(chs[i].data) |-> NumToStr(chs[i].data[j])]]]

\* a loader that hands the array's length to the Uint8Array constructor
\* instead of the array: a zero-filled array of the same length
ParseDataBlank(arr) == [j \in 1..Len(arr) |-> 0]

\* JSON.parse of one stored array, then new Uint8Array(...)
ParseData(arr) == Uint8Array([j \in 1..Len(arr) |-> StrToNum(arr[j])])

\* the rebuild loop of loadWorld from entry k on
RECURSIVE LoadFrom(_, _, _)
LoadFrom(chs, payload, k) ==
    LET c == SplitKey(payload[k].key)
        data == ParseData(payload[k].arr)
        r == buildChunkMesh(
                 Append(chs, [key |-> payload[k].key, data |-> data,
                              mesh |-> NoMesh]),
                 c[1], c[2], data)
    IN  IF k > Len(payload) THEN [chunks |-> chs, threw |-> FALSE]
        ELSE IF r.threw THEN r
        ELSE LoadFrom(r.chunks, payload, k + 1)

\* loadWorld with a save present: the old meshes leave the scene, chunks is
\* replaced by a new object and refilled from the payload
loadWorld(payload) == LoadFrom(<<>>, payload, 1)


\* ------------------------------------------------------------------------
\* 8. STATE
\* ------------------------------------------------------------------------
VARIABLES
    chunks,     \* the chunk map
    camera,     \* camera.position: [x, y, z] in 1/UNIT
    player,     \* [vy |-> player.velocity.y in 1/UNIT, onGround]
    moveInput,  \* [x, y], each in -1..1
    storage,    \* localStorage 'openWorldSave': <<>> or <<payload>>
    last,       \* the call that produced this state, its arguments and outcome
    nEvents     \* input events handled so far

vars == <<chunks, camera, player, moveInput, storage, last, nEvents>>

\* bounds of the environment: the input events handled in one run of Spec,
\* of SpecStream and of SpecEdit
MaxEvents == 3
MaxStreamEvents == 2
MaxEdits == 1

\* input events are taken while the player stands on the ground
EnvReady == player.onGround

\* the player walks no further than one block into the next chunk
WalkLimit == (CHUNK_SIZE + 1) * UNIT

Num(v) == <<v, 0>>
TinyNeg == <<0, 0 - 1>>

\* last: op is the call, prev the call before it, killed whether the kill
\* plane fired in it, threw whether it ended by an exception
Call(op) ==
    [op |-> op, prev |-> last.op, wx |-> Num(0), wy |-> Num(0), wz |-> Num(0),
     id |-> 0, killed |-> FALSE, threw |-> FALSE]

\* init(): the camera is placed and updateChunks() runs once
StartCamera ==
    [x |-> (CHUNK_SIZE * UNIT) \div 2, y |-> (CHUNK_HEIGHT + 5) * UNIT,
     z |-> (CHUNK_SIZE * UNIT) \div 2]

StartChunks == updateChunks(<<>>, StartCamera).chunks

\* What an earlier session may have left in localStorage: the save of the
\* start world after setBlock(.., AIR) calls broke every block of chunk 0,0
\* except the one in cell (0, 0, 0).
EarlierChunks ==
    LET i == ChunkIndex(StartChunks, getChunkKey(0, 0))
    IN  [StartChunks EXCEPT
            ![i].data = [j \in 1..NCELLS |-> IF j = 1 THEN @[j] ELSE AIR]]

EarlierSave == saveData(EarlierChunks)

InitWith(cam, chs, stores) ==
    /\ camera = cam
    /\ chunks = chs
    /\ player = [vy |-> 0, onGround |-> FALSE]
    /\ moveInput = [x |-> 0, y |-> 0]
    /\ storage \in stores
    /\ last = [op |-> "init", prev |-> "init", wx |-> Num(0), wy |-> Num(0),
               wz |-> Num(0), id |-> 0, killed |-> FALSE, threw |-> FALSE]
    /\ nEvents = 0

Init == InitWith(StartCamera, StartChunks, {<<>>, <<EarlierSave>>})

\* ------------------------------------------------------------------------
\* 9. ACTIONS
\* ------------------------------------------------------------------------
\* animate(): one frame: updatePhysics(dt), updateChunks(), render
Animate ==
    \E p \in {updatePhysics(chunks, camera, player, moveInput)} :
        /\ p.camera.x <= WalkLimit
        /\ camera' = p.camera
        /\ player' = p.player
        /\ chunks' = updateChunks(chunks, p.camera).chunks
        /\ last' = [Call("animate") EXCEPT !.killed = p.killed]
        /\ UNCHANGED <<moveInput, storage, nEvents>>

\* setBlock(wx, wy, wz, id), as doRaycastAction calls it
SetBlock(wx, wy, wz, id) ==
    LET r == setBlock(chunks, wx, wy, wz, id)
    IN  /\ EnvReady
        /\ chunks' = r.chunks
        /\ last' = [Call("setBlock") EXCEPT !.wx = wx, !.wy = wy, !.wz = wz,
                                            !.id = id, !.threw = r.threw]
        /\ nEvents' = nEvents + 1
        /\ UNCHANGED <<camera, player, moveInput, storage>>

\* saveWorld, the click handler of btn-save
SaveWorld ==
    /\ EnvReady
    /\ storage' = <<saveData(chunks)>>
    /\ last' = Call("saveWorld")
    /\ nEvents' = nEvents + 1
    /\ UNCHANGED <<chunks, camera, player, moveInput>>

\* loadWorld, the click handler of btn-load
LoadWorld ==
    /\ EnvReady
    /\ IF storage = <<>>
       THEN /\ chunks' = chunks
            /\ last' = Call("loadWorld")
       ELSE LET r == loadWorld(storage[1])
            IN  /\ chunks' = r.chunks
                /\ last' = [Call("loadWorld") EXCEPT !.threw = r.threw]
    /\ nEvents' = nEvents + 1
    /\ UNCHANGED <<camera, player, moveInput, storage>>

\* touchmove on the move zone: the stick is pushed to (x, y)
TouchMove(x, y) ==
    /\ EnvReady
    /\ moveInput' = [x |-> x, y |-> y]
    /\ last' = Call("touchmove")
    /\ nEvents' = nEvents + 1
    /\ UNCHANGED <<chunks, camera, player, storage>>

\* touchend on the move zone
TouchEnd ==
    /\ EnvReady
    /\ moveInput' = [x |-> 0, y |-> 0]
    /\ last' = Call("touchend")
    /\ nEvents' = nEvents + 1
    /\ UNCHANGED <<chunks, camera, player, storage>>

\* ------------------------------------------------------------------------
\* 10. SPECIFICATIONS
\* ------------------------------------------------------------------------
\* Spec: frames, breaking and placing one block, saving and loading
EditX == {Num(UNIT \div 2)}
EditId == {AIR, SAND}

Next ==
    \/ Animate
    \/ \E wx \in EditX, id \in EditId :
           nEvents < MaxEvents
               /\ SetBlock(wx, Num(UNIT \div 2), Num(UNIT \div 2), id)
    \/ nEvents < MaxEvents /\ SaveWorld
    \/ nEvents < MaxEvents /\ LoadWorld

Spec == Init /\ [][Next]_vars

\* SpecStream: frames while the player walks along x, an edit, loading the
\* earlier save.  The stick is pushed from rest and released after a push.
InitStream == InitWith(StartCamera, StartChunks, {<<EarlierSave>>})

NextStream ==
    \/ Animate
    \/ nEvents < MaxStreamEvents /\ moveInput.x = 0 /\ TouchMove(1, 0)
    \/ nEvents < MaxStreamEvents /\ moveInput.x # 0 /\ TouchEnd
    \/ nEvents < MaxStreamEvents
           /\ SetBlock(Num(UNIT \div 2), Num(UNIT \div 2), Num(UNIT \div 2), SAND)
    \/ nEvents < MaxStreamEvents /\ LoadWorld

SpecStream == InitStream /\ [][NextStream]_vars

\* SpecEdit: frames and setBlock calls at and around chunk borders, on and
\* off the grid, inside and outside the loaded region and the height range
FarX == Num(((RENDER_DISTANCE + 1) * CHUNK_SIZE * UNIT) + (UNIT \div 2))

WideX ==
    {Num(0 - UNIT), Num(0 - (UNIT \div 2)), TinyNeg, Num(UNIT \div 2),
     Num((3 * UNIT) \div 2), FarX}

WideZ == {Num(UNIT \div 2), Num(0 - UNIT)}

WideY ==
    {Num(UNIT \div 2), Num((CHUNK_HEIGHT * UNIT) - (UNIT \div 2)),
     Num(0 - (UNIT \div 2)), Num(CHUNK_HEIGHT * UNIT)}

WideId == {AIR, BRICK}

InitEdit == InitWith(StartCamera, StartChunks, {<<>>})

NextEdit ==
    \/ Animate
    \/ \E wx \in WideX, wy \in WideY, wz \in WideZ, id \in WideId :
           nEvents < MaxEdits /\ SetBlock(wx, wy, wz, id)

SpecEdit == InitEdit /\ [][NextEdit]_vars

\* SpecMesh: buildChunkMesh applied to chunk 0,0 of small chunk maps: the
\* chunk is solid, holds one block or two adjacent blocks, or is generated
\* terrain; each of its four side neighbours is unloaded or loaded and solid
SolidData(type) == [j \in 1..NCELLS |-> type]

OneBlock(i, type) == [j \in 1..NCELLS |-> IF j = i + 1 THEN type ELSE AIR]

TwoBlocks(type) == [j \in 1..NCELLS |-> IF j <= 2 THEN type ELSE AIR]

SampleCells == {0, 1, CHUNK_SIZE * CHUNK_SIZE, NCELLS - 1}

MeshData ==
    {SolidData(STONE), generateChunkData(0, 0), TwoBlocks(BRICK)}
        \cup {OneBlock(i, type) : i \in SampleCells, type \in {GRASS, BRICK}}

SideSeq == <<<<0 - 1, 0>>, <<1, 0>>, <<0, 0 - 1>>, <<0, 1>>>>

SideSet == {SideSeq[k] : k \in 1..Len(SideSeq)}

MeshWorld(data, loaded) ==
    LET sel == SelectSeq(SideSeq, LAMBDA c : c \in loaded)
    IN  <<[key |-> getChunkKey(0, 0), data |-> data, mesh |-> NoMesh]>>
        \o [k \in 1..Len(sel) |->
               [key |-> getChunkKey(sel[k][1], sel[k][2]),
                data |-> SolidData(STONE), mesh |-> NoMesh]]

InitMesh ==
    \E data \in MeshData, loaded \in SUBSET SideSet :
        InitWith(StartCamera, MeshWorld(data, loaded), {<<>>})

\* buildChunkMesh(0, 0, chunks["0,0"].data)
BuildMesh ==
    /\ last.op = "init"
    /\ chunks' = buildChunkMesh(chunks, 0, 0,
                                ChunkAt(chunks, getChunkKey(0, 0)).data).chunks
    /\ last' = Call("buildChunkMesh")
    /\ UNCHANGED <<camera, player, moveInput, storage, nEvents>>

NextMesh == BuildMesh

SpecMesh == InitMesh /\ [][NextMesh]_vars

\* SpecCorrupt: localStorage holds a save whose array for chunk 0,0 has the
\* wrong length: three cells, none, one cell short, one cell long
WithArray(arr) ==
    [saveData(StartChunks) EXCEPT
        ![ChunkIndex(StartChunks, getChunkKey(0, 0))].arr = arr]

CorruptSaves ==
    LET good == saveData(StartChunks)[ChunkIndex(StartChunks, getChunkKey(0, 0))].arr
    IN  {<<[key |-> getChunkKey(0, 0), arr |-> <<<<"1">>, <<"2">>, <<"3">>>>]>>,
         <<[key |-> getChunkKey(0, 0), arr |-> <<>>]>>,
         WithArray(SubSeq(good, 1, NCELLS - 1)),
         WithArray(Append(good, <<"0">>))}

InitCorrupt == InitWith(StartCamera, StartChunks, {<<p>> : p \in CorruptSaves})

NextCorrupt ==
    \/ Animate
    \/ nEvents < MaxEvents /\ LoadWorld

SpecCorrupt == InitCorrupt /\ [][NextCorrupt]_vars

\* SpecLanding: the frame loop with no input, from y = 30 at rest above a
\* column of the generated terrain whose top block is at y = 5
LandingSpots ==
    {c \in ((0 - 1)..0) \X (11..12) : TerrainHeight(c[1], c[2]) = 5}

LandingCamera(c) ==
    [x |-> c[1] * UNIT + (UNIT \div 2), y |-> 30 * UNIT,
     z |-> c[2] * UNIT + (UNIT \div 2)]

InitLanding ==
    \E c \in LandingSpots :
        InitWith(LandingCamera(c),
                 updateChunks(<<>>, LandingCamera(c)).chunks, {<<>>})

NextLanding == Animate

SpecLanding == InitLanding /\ [][NextLanding]_vars /\ WF_vars(Animate)

\* SpecKill: the frame loop with no input over the hole of the earlier
\* save (chunk 0,0 holds one block, at cell (0, 0, 0)), the camera at local
\* (1, 1) where no block is left.  The runs start above the kill plane, on
\* it, and with the position forced below it (y = -11), at rest or falling.
KillStartY ==
    {0 - (11 * UNIT), 0 - (10 * UNIT), 0 - ((99 * UNIT) \div 10), 0,
     (CHUNK_HEIGHT + 5) * UNIT}

KillStartVy == {0, 0 - (20 * UNIT)}

HoleChunks == loadWorld(EarlierSave).chunks

InitKill ==
    /\ camera \in {[x |-> UNIT + (UNIT \div 2), y |-> y, z |-> UNIT + (UNIT \div 2)] :
                      y \in KillStartY}
    /\ chunks = HoleChunks
    /\ player \in {[vy |-> v, onGround |-> FALSE] : v \in KillStartVy}
    /\ moveInput = [x |-> 0, y |-> 0]
    /\ storage = <<EarlierSave>>
    /\ last = [op |-> "init", prev |-> "init", wx |-> Num(0), wy |-> Num(0),
               wz |-> Num(0), id |-> 0, killed |-> FALSE, threw |-> FALSE]
    /\ nEvents = 0

NextKill == Animate

SpecKill == InitKill /\ [][NextKill]_vars

\* ------------------------------------------------------------------------
\* 11. PROPERTIES
\* ------------------------------------------------------------------------
\* the chunk coordinates of entry c of the chunk map
Coord(c) == SplitKey(c.key)

\* what buildChunkMesh pushes for entry i of chs
BuiltFrom(chs, i) ==
    Geometries(chs, ChunkIndex(chs, getChunkKey(Coord(chs[i])[1], Coord(chs[i])[2])),
               Coord(chs[i])[1], Coord(chs[i])[2], chs[i].data, 0, NCELLS)

\* a run that loads the earlier save (one block in chunk 0,0) and then
\* removes that block: the chunk has no exposed face left
C1_EmptiedChunk ==
    /\ last.op = "setBlock"
    /\ last.prev = "loadWorld"
    /\ HasChunk(chunks, getChunkKey(0, 0))
    /\ \A j \in 1..NCELLS : ChunkAt(chunks, getChunkKey(0, 0)).data[j] = AIR

\* C1: in every reachable state, every loaded chunk whose mesh field is
\* present holds a mesh built from the chunk's current block array: after a
\* mutation the old mesh is discarded (field absent) or replaced by a
\* rebuilt one, also when the edit leaves the chunk without exposed faces.
C1_MeshMatchesBlocks ==
    \A i \in 1..Len(chunks) :
        chunks[i].mesh # NoMesh =>
            /\ ~chunks[i].mesh[1].disposed
            /\ chunks[i].mesh[1].geometry = BuiltFrom(chunks, i)

\* C8: loadWorld applied to what saveWorld just wrote yields the same chunk
\* coordinates and, for each, an equal block array; the meshes are rebuilt
\* from the loaded arrays.
C8_SaveLoadRoundTrip ==
    [][(last.op = "saveWorld" /\ last'.op = "loadWorld") =>
          /\ {Coord(chunks'[i]) : i \in 1..Len(chunks')}
               = {Coord(chunks[i]) : i \in 1..Len(chunks)}
          /\ Len(chunks') = Len(chunks)
          /\ \A i \in 1..Len(chunks) : \A j \in 1..Len(chunks') :
                 Coord(chunks'[j]) = Coord(chunks[i]) =>
                     /\ chunks'[j].data = chunks[i].data
                     /\ chunks'[j].mesh =
                          IF BuiltFrom(chunks', j) = <<>> THEN NoMesh
                          ELSE <<[geometry |-> BuiltFrom(chunks', j),
                                  disposed |-> FALSE]>>]_vars

\* a world holding edited blocks was saved and loaded back
C8_Witness ==
    /\ last.op = "loadWorld"
    /\ last.prev = "saveWorld"
    /\ chunks # <<>>
    /\ \E i \in 1..Len(chunks) :
           chunks[i].data # generateChunkData(Coord(chunks[i])[1], Coord(chunks[i])[2])

\* the chunk the camera is in
PlayerChunk(cam) ==
    <<FloorDiv(cam.x, CHUNK_SIZE * UNIT), FloorDiv(cam.z, CHUNK_SIZE * UNIT)>>

\* C4: after updateChunks has run (at start-up and in every frame, before
\* the draw) every chunk within Chebyshev distance RENDER_DISTANCE of the
\* camera's chunk is in the chunk map with a block array, wherever the
\* player is, also after a kill-plane teleport or a loadWorld.
C4_RadiusLoaded ==
    last.op \in {"init", "animate"} =>
        \A dx \in (0 - RENDER_DISTANCE)..RENDER_DISTANCE :
            \A dz \in (0 - RENDER_DISTANCE)..RENDER_DISTANCE :
                LET key == getChunkKey(PlayerChunk(camera)[1] + dx,
                                       PlayerChunk(camera)[2] + dz)
                IN  /\ HasChunk(chunks, key)
                    /\ Len(ChunkAt(chunks, key).data) = NCELLS

\* the frame after a loadWorld that replaced the map while the player
\* stood in chunk 1,0: the loaded map lacked chunks of the radius
C4_Witness ==
    /\ last.op = "animate"
    /\ last.prev = "loadWorld"
    /\ PlayerChunk(camera)[1] = 1
    /\ Len(chunks) > Len(StartChunks)

\* C5: the updateChunks of a frame removes no chunk and changes no block
\* array or mesh of a chunk that was loaded (edited chunks included); run
\* twice in a row from the same position, the second run changes nothing.
C5_StreamingKeeps ==
    [][last'.op = "animate" =>
          /\ Len(chunks') >= Len(chunks)
          /\ SubSeq(chunks', 1, Len(chunks)) = chunks
          /\ (last.op = "animate" /\ camera'.x = camera.x /\ camera'.z = camera.z)
                 => chunks' = chunks]_vars

\* a frame that loaded new chunks into a map holding an edited chunk
C5_Witness ==
    /\ last.op = "animate"
    /\ Len(chunks) > Len(StartChunks)
    /\ ChunkAt(chunks, getChunkKey(0, 0)).data # generateChunkData(0, 0)
    /\ PlayerChunk(camera)[1] = 1

\* the target of the setBlock call recorded in l
TargetOf(l) == SetBlockTarget(l.wx, l.wy, l.wz)

\* C2: for every world (wx, wz), negative ones included, setBlock resolves
\* the owning chunk by floor and local coordinates lx, lz within
\* 0..CHUNK_SIZE-1 such that cx*CHUNK_SIZE + lx = floor(wx) (and likewise
\* for z).
C2_FloorResolution ==
    last.op = "setBlock" =>
        /\ TargetOf(last).lx \in 0..(CHUNK_SIZE - 1)
        /\ TargetOf(last).lz \in 0..(CHUNK_SIZE - 1)
        /\ (TargetOf(last).cx * CHUNK_SIZE) + TargetOf(last).lx = NumFloor(last.wx)
        /\ (TargetOf(last).cz * CHUNK_SIZE) + TargetOf(last).lz = NumFloor(last.wz)

\* the same on the grid and half-way between grid lines: every argument
\* that is a multiple of one half resolves by floor, wx = -1 to chunk -1,
\* local CHUNK_SIZE-1
C2_FloorOnHalves ==
    (last.op = "setBlock" /\ last.wx[2] = 0 /\ last.wz[2] = 0) =>
        /\ TargetOf(last).lx \in 0..(CHUNK_SIZE - 1)
        /\ TargetOf(last).lz \in 0..(CHUNK_SIZE - 1)
        /\ (TargetOf(last).cx * CHUNK_SIZE) + TargetOf(last).lx = NumFloor(last.wx)
        /\ (TargetOf(last).cz * CHUNK_SIZE) + TargetOf(last).lz = NumFloor(last.wz)
        /\ last.wx = Num(0 - UNIT) =>
               (TargetOf(last).cx = 0 - 1 /\ TargetOf(last).lx = CHUNK_SIZE - 1)

\* C3: a setBlock whose owning chunk is not loaded, or whose floor(wy) is
\* outside 0..CHUNK_HEIGHT-1, raises nothing, creates no chunk and leaves
\* every loaded chunk's block array and mesh as they were.
C3_SilentNoOp ==
    [][(/\ last'.op = "setBlock"
        /\ \/ ~HasChunk(chunks, getChunkKey(TargetOf(last').cx, TargetOf(last').cz))
           \/ TargetOf(last').ly < 0
           \/ TargetOf(last').ly >= CHUNK_HEIGHT)
          => (chunks' = chunks /\ ~last'.threw)]_vars

\* a setBlock call was made on a chunk that is not loaded, within the height
\* range
C3_Witness ==
    /\ last.op = "setBlock"
    /\ ~HasChunk(chunks, getChunkKey(TargetOf(last).cx, TargetOf(last).cz))
    /\ TargetOf(last).ly \in 0..(CHUNK_HEIGHT - 1)

\* the quads of the mesh of chunk 0,0 (none when the mesh field is null)
QuadsOfOrigin ==
    LET c == ChunkAt(chunks, getChunkKey(0, 0))
    IN  IF c.mesh = NoMesh THEN <<>> ELSE c.mesh[1].geometry

\* chunk 0,0 is filled with one non-Air block and so is each of its four
\* side neighbours, all loaded
Enclosed ==
    /\ \A c \in SideSet : HasChunk(chunks, getChunkKey(c[1], c[2]))
    /\ \E type \in {GRASS, DIRT, STONE, SAND, WOOD, BRICK} :
           \A i \in 1..Len(chunks) : chunks[i].data = SolidData(type)

\* C6: building the mesh of a solid chunk whose side neighbours are loaded
\* and filled with the same block yields zero exposed faces (no mesh): the
\* faces on the chunk's edges are culled against the adjacent chunks.
C6_EnclosedNoFaces ==
    (last.op = "buildChunkMesh" /\ Enclosed) =>
        /\ ChunkAt(chunks, getChunkKey(0, 0)).mesh = NoMesh
        /\ Len(QuadsOfOrigin) = 0

C9_WrongLengthRejected ==
    /\ \A i \in 1..Len(chunks) : Len(chunks[i].data) = NCELLS
    /\ (/\ last.op = "loadWorld"
        /\ storage # <<>>
        /\ \E k \in 1..Len(storage[1]) : Len(storage[1][k].arr) # NCELLS)
           => last.threw

\* eye height 1.6 and the camera height of a body standing on the block at
\* y = 5
EyeHeight == (16 * UNIT) \div 10

RestY == ((5 + 1) * UNIT) + EyeHeight

\* C10: from y = 30 at rest with no input above a column whose top block is
\* at y = 5, the frames at dt = 0.016 eventually end a step on the ground;
\* from then on every step ends on the ground with vertical velocity 0 and
\* the camera at 5 + 1 + 1.6; no step ends with the feet inside or below
\* the surface block, and the kill plane never fires.
C10_Landing ==
    /\ <>(player.onGround)
    /\ [](player.onGround => (player.vy = 0 /\ camera.y = RestY))
    /\ [][player.onGround => player'.onGround]_vars
    /\ [](camera.y - EyeHeight >= (5 + 1) * UNIT)
    /\ [](~last.killed)

\* the body has come to rest on the column
C10_Witness ==
    /\ last.op = "animate"
    /\ last.prev = "animate"
    /\ player.onGround
    /\ camera.y = RestY
    /\ <<FloorDiv(camera.x, UNIT), FloorDiv(camera.z, UNIT)>> \in LandingSpots

\* the height the integrator gives the camera in a frame, before the ground
\* test and the kill plane: y + (vy - GRAVITY * dt) * dt
SteppedY == camera.y + (((player.vy - (GRAVITY * DT_NUM) \div DT_DEN) * DT_NUM) \div DT_DEN)

\* C11: whenever a frame's updatePhysics step leaves the camera below
\* y = -10 (as when the step starts at y = -11), the step ends with the
\* camera at the spawn point (0, 30, 0), vertical velocity 0 and
\* onGround = FALSE; hence no step ends with the camera below y = -10.
C11_KillPlane ==
    [][last'.op = "animate" =>
          /\ SteppedY < (0 - 10) * UNIT =>
                 /\ camera' = [x |-> 0, y |-> 30 * UNIT, z |-> 0]
                 /\ player'.vy = 0
                 /\ ~player'.onGround
          /\ camera'.y >= (0 - 10) * UNIT]_vars

\* the step that started with the position forced to y = -11 has ended at
\* the spawn point
C11_Witness ==
    /\ last.op = "animate"
    /\ last.prev = "init"
    /\ last.killed
    /\ camera = [x |-> 0, y |-> 30 * UNIT, z |-> 0]
    /\ player = [vy |-> 0, onGround |-> FALSE]

=============================================================================
